---- MODULE Spec2Model ----
(***************************************************************************)
(* DrawingBoard (src/src/main.js): a canvas drawing board with a bounded   *)
(* revoke (undo) stack of pixel snapshots, pointer listeners that are      *)
(* bound and unbound around each stroke, and a rotatable background image. *)
(*                                                                         *)
(* The board object is modelled field by field.  Every method is an        *)
(* operator from a board record to a board record, so that a method that   *)
(* calls other methods is the composition the code performs; the actions   *)
(* apply one public call or one native event to the current board.         *)
(*                                                                         *)
(* Platform abstractions: a canvas raster is [bg, ink]: the parameters of  *)
(* the last full-surface drawImage call (if any) and the set of points the *)
(* pen has touched since; assigning the width or height of a canvas        *)
(* element blanks its raster; getImageData/putImageData copy the raster.   *)
(* Pen style, class name and background colour take no part in any         *)
(* decision of the code modelled here and are left out.                    *)
(***************************************************************************)
EXTENDS Integers, Sequences, FiniteSets, TLC

(* ------------------------------ bounds -------------------------------- *)
\* the paint count up to which pointer events are explored
MaxPaintCount == 1
\* pointer coordinates are 1..MaxCoord
MaxCoord == 1
\* number of _init calls (constructor plus reInit calls) explored
MaxInits == 2
\* the angles explored for _getLawfulRotateAngle are -MaxAngle..MaxAngle
MaxAngle == 800

(* --------------------------- JavaScript values ------------------------ *)
undefined == [type |-> "undefined"]
null == [type |-> "null"]
NaN == [type |-> "NaN"]
\* a number num/den; the code's integers have den = 1
Frac(n, d) == [type |-> "number", num |-> n, den |-> d]
Num(n) == Frac(n, 1)
Str(s) == [type |-> "string", val |-> s]

\* typeof v === 'number' (NaN included)
IsNumberType(v) == v.type \in {"number", "NaN"}
\* typeof v === 'number' && !isNaN(v)
IsNumber(v) == v.type = "number"
\* v == null
IsNullish(v) == v.type \in {"undefined", "null"}
\* JavaScript truthiness
Truthy(v) ==
    CASE v.type \in {"undefined", "null", "NaN"} -> FALSE
      [] v.type = "number" -> v.num # 0
      [] v.type = "string" -> v.val # ""
      [] OTHER -> TRUE
\* a || b
OrElse(a, b) == IF Truthy(a) THEN a ELSE b
\* a % b of JavaScript on integers, b > 0: the sign follows the dividend
JsRem(a, b) == IF a >= 0 THEN a % b ELSE -((-a) % b)

VARIABLES
    options,            \* this.options
    el,                 \* this.el: the mounted canvas element, or undefined / null
    ctx,                \* this.ctx: a 2d context, or undefined
    canvases,           \* the raster of every canvas element created so far
    listeners,          \* the event listeners of this.el, in registration order
    width, height,      \* this.width, this.height
    manualMount,        \* this.manualMount
    revokeStack,        \* this.revokeStack
    MAX_REVOKE_STEPS,   \* this.MAX_REVOKE_STEPS
    lastPoint,          \* this.lastPoint
    isPainting,         \* this.isPainting
    interactiveMode,    \* this.interactiveMode
    binded,             \* generation of the this._handle...Binded functions
    bgImgRotate,        \* this.bgImgRotate
    _bgImgObject,       \* this._bgImgObject
    originalSize,       \* this.originalSize
    paintCount,         \* this.paintCount
    loads,              \* the image loads in flight, in the order requested
    requested           \* the number of image loads requested so far

vars == <<options, el, ctx, canvases, listeners, width, height, manualMount,
          revokeStack, MAX_REVOKE_STEPS, lastPoint, isPainting,
          interactiveMode, binded, bgImgRotate, _bgImgObject, originalSize,
          paintCount, loads, requested>>

\* The board object as one record, with the image loads it has started.
\* Its last two fields are not state of the board: they collect what one call or one event did besides changing
\* the board, the callbacks it invoked (in order, with their arguments) and
\* whether an exception left it.
This ==
    [options |-> options, el |-> el, ctx |-> ctx, canvases |-> canvases,
     listeners |-> listeners, width |-> width, height |-> height,
     manualMount |-> manualMount, revokeStack |-> revokeStack,
     MAX_REVOKE_STEPS |-> MAX_REVOKE_STEPS, lastPoint |-> lastPoint,
     isPainting |-> isPainting, interactiveMode |-> interactiveMode,
     binded |-> binded, bgImgRotate |-> bgImgRotate,
     _bgImgObject |-> _bgImgObject, originalSize |-> originalSize,
     paintCount |-> paintCount, loads |-> loads, requested |-> requested,
     calls |-> <<>>, thrown |-> FALSE]

\* the board object becomes s
Becomes(s) ==
    /\ options' = s.options
    /\ el' = s.el
    /\ ctx' = s.ctx
    /\ canvases' = s.canvases
    /\ listeners' = s.listeners
    /\ width' = s.width
    /\ height' = s.height
    /\ manualMount' = s.manualMount
    /\ revokeStack' = s.revokeStack
    /\ MAX_REVOKE_STEPS' = s.MAX_REVOKE_STEPS
    /\ lastPoint' = s.lastPoint
    /\ isPainting' = s.isPainting
    /\ interactiveMode' = s.interactiveMode
    /\ binded' = s.binded
    /\ bgImgRotate' = s.bgImgRotate
    /\ _bgImgObject' = s._bgImgObject
    /\ originalSize' = s.originalSize
    /\ paintCount' = s.paintCount
    /\ loads' = s.loads
    /\ requested' = s.requested

(* ------------------------------ canvas -------------------------------- *)
\* an exception leaves the call; what the call did before it stays
Throw(s) == [s EXCEPT !.thrown = TRUE]

\* a raster nothing has been drawn on
Blank == [bg |-> <<>>, ink |-> {}]

\* document.createElement('canvas'): the next element, its raster blank
_makeCanvas(s) == [type |-> "canvas", id |-> Len(s.canvases) + 1]

\* this.el.getContext('2d')
_getCtx(s) ==
    IF Truthy(s.el) THEN [type |-> "ctx", canvas |-> s.el.id] ELSE s.el

\* ctx.getImageData(0, 0, width, height)
getImageData(s) ==
    [type |-> "ImageData", pixels |-> s.canvases[s.ctx.canvas]]

\* getImageData throws when the stored width or height it is given is
\* undefined (or zero): there is no rectangle to read
getImageDataThrows(s) == ~Truthy(s.width) \/ ~Truthy(s.height)

\* the raster of the context's canvas becomes p
Paint(s, p) == [s EXCEPT !.canvases[s.ctx.canvas] = p]

\* ctx.putImageData(imageData, 0, 0)
putImageData(s, imageData) == Paint(s, imageData.pixels)

\* ctx.clearRect(0, 0, width, height)
clearRect(s) == Paint(s, Blank)

\* el.width = width / el.height = height, which blank the element's raster
_setDOMSize(s, w, h) ==
    IF (~IsNullish(w) \/ ~IsNullish(h)) /\ Truthy(s.el)
    THEN [s EXCEPT !.canvases[s.el.id] = Blank]
    ELSE s

setSize(s, w, h) ==
    LET s1 == IF Truthy(w) THEN [s EXCEPT !.width = w] ELSE s
        s2 == IF Truthy(h) THEN [s1 EXCEPT !.height = h] ELSE s1
    IN _setDOMSize(s2, w, h)

_drawCircle(s, p) ==
    IF ~Truthy(s.ctx) THEN s
    ELSE Paint(s, [s.canvases[s.ctx.canvas] EXCEPT !.ink = @ \cup {p}])

_drawLine(s, p1, p2) ==
    IF ~Truthy(s.ctx) THEN s
    ELSE Paint(s, [s.canvases[s.ctx.canvas] EXCEPT !.ink = @ \cup {p1, p2}])

\* w <= 0 for a value that passed the truthiness test
NotPositive(v) == v.type = "number" /\ v.num <= 0

\* the image is drawn over the whole surface under the current rotation;
\* ctx.drawImage throws a TypeError for a string, which is no image source
_drawBg(s, imgObject, w, h) ==
    IF \/ ~Truthy(imgObject)
       \/ ~Truthy(s.ctx)
       \/ ~Truthy(w)
       \/ ~Truthy(h)
       \/ NotPositive(w)
       \/ NotPositive(h)
    THEN s
    ELSE IF imgObject.type = "string"
    THEN Throw(s)
    ELSE LET upright == s.bgImgRotate \in {Num(0), Num(180)}
             drawn == [img |-> imgObject, sWidth |-> w, sHeight |-> h,
                       dWidth |-> IF upright THEN s.width ELSE s.height,
                       dHeight |-> IF upright THEN s.height ELSE s.width,
                       rotate |-> s.bgImgRotate]
         IN Paint(s, [bg |-> <<drawn>>, ink |-> {}])

(* ------------------------------ history ------------------------------- *)
DEFAULT_MAX_REVOKE_STEPS == 10
LIMIT_MAX_REVOKE_STEPS == 50

\* steps <= 0, after JavaScript's conversion of steps to a number
LeqZero(steps) ==
    CASE steps.type = "number" -> steps.num <= 0
      [] steps.type = "null" -> TRUE
      [] steps.type = "string" -> steps.val = ""
      [] OTHER -> FALSE

_getLawfulMaxRevokeSteps(steps) ==
    IF LeqZero(steps) \/ ~IsNumberType(steps) \/ steps.type = "NaN"
    THEN Num(DEFAULT_MAX_REVOKE_STEPS)
    ELSE IF steps.num > LIMIT_MAX_REVOKE_STEPS * steps.den
         THEN Num(LIMIT_MAX_REVOKE_STEPS)
         ELSE steps

\* the invocation of a callback option with its argument
Call(s, fn, arg) == [s EXCEPT !.calls = Append(@, [fn |-> fn, arg |-> arg])]

\* revokeStack.shift(): nothing happens on an empty array
Shift(stack) == IF stack = <<>> THEN stack ELSE Tail(stack)

_saveImageData(s, type, count, imageData) ==
    IF \/ type \notin {"paint", "clear"}
       \/ count \notin Int
       \/ ~Truthy(imageData)
       \/ imageData.type # "ImageData"
    THEN s
    ELSE LET full == Len(s.revokeStack) * s.MAX_REVOKE_STEPS.den
                         >= s.MAX_REVOKE_STEPS.num
             kept == IF full THEN Shift(s.revokeStack) ELSE s.revokeStack
             stack == Append(kept, [type |-> type, paintCount |-> count,
                                    imageData |-> imageData])
         IN Call([s EXCEPT !.revokeStack = stack],
                 "onRevokeStackChange", stack)

\* _revoke taking the oldest entry (shift) instead of the latest (pop)
_revokeOldest(s) ==
    IF ~Truthy(s.ctx) \/ s.revokeStack = <<>>
    THEN s
    ELSE LET top == s.revokeStack[1]
             stack == Tail(s.revokeStack)
             s1 == putImageData([s EXCEPT !.revokeStack = stack],
                                top.imageData)
         IN Call([s1 EXCEPT !.paintCount = top.paintCount],
                 "onRevokeStackChange", stack)

_revoke(s) ==
    IF ~Truthy(s.ctx) \/ s.revokeStack = <<>>
    THEN s
    ELSE LET n == Len(s.revokeStack)
             top == s.revokeStack[n]
             stack == SubSeq(s.revokeStack, 1, n - 1)
             s1 == putImageData([s EXCEPT !.revokeStack = stack],
                                top.imageData)
         IN Call([s1 EXCEPT !.paintCount = top.paintCount],
                 "onRevokeStackChange", stack)

revoke(s) == _revoke(s)

(* ------------------------------ events -------------------------------- *)
INTERACTIVE_MODE_ENUM == {"mouse", "touch", "both"}

\* this.eventList; the handler of an item is the bound function of its fn
eventList ==
    <<[pointerType |-> "mouse", action |-> "start", name |-> "mousedown",
       fn |-> "_handlePointerStart"],
      [pointerType |-> "mouse", action |-> "move", name |-> "mousemove",
       fn |-> "_handlePointerMove"],
      [pointerType |-> "mouse", action |-> "end", name |-> "mouseup",
       fn |-> "_handlePointerEnd"],
      [pointerType |-> "mouse", action |-> "leave", name |-> "mouseleave",
       fn |-> "_handlePointerLeave"],
      [pointerType |-> "touch", action |-> "start", name |-> "touchstart",
       fn |-> "_handlePointerStart"],
      [pointerType |-> "touch", action |-> "move", name |-> "touchmove",
       fn |-> "_handlePointerMove"],
      [pointerType |-> "touch", action |-> "end", name |-> "touchend",
       fn |-> "_handlePointerEnd"],
      [pointerType |-> "touch", action |-> "cancel", name |-> "touchcancel",
       fn |-> "_handlePointerCancel"]>>

EventNames == {eventList[i].name : i \in DOMAIN eventList}

\* a listener of the element: the event name and the bound function, which
\* is a new object at every _init
Listener(s, item) ==
    [name |-> item.name, fn |-> item.fn, binded |-> s.binded]

_getPointerType(mode) ==
    IF mode = "both" THEN ""
    ELSE IF mode = "touch" THEN "touch"
    ELSE "mouse"

\* The condition objects the callers build carry pointerType and action:
\* their mode is undefined, and so is the mode of every item of eventList.
_getEventItems(condition) ==
    LET mode == undefined
        action == condition.action
        itemMode == undefined
        filterFn(item) ==
            IF Truthy(mode) /\ action # ""
            THEN itemMode = mode /\ item.action = action
            ELSE IF Truthy(mode) /\ action = ""
            THEN itemMode = mode
            ELSE IF ~Truthy(mode) /\ action # ""
            THEN item.action = action
            ELSE TRUE
    IN SelectSeq(eventList, filterFn)

\* el.addEventListener(name, handler, false): a listener already there is
\* not added again
addEventListener(ls, l) ==
    IF \E i \in DOMAIN ls : ls[i] = l THEN ls ELSE Append(ls, l)

\* el.removeEventListener(name, handler, false)
removeEventListener(ls, l) ==
    LET other(x) == x # l IN SelectSeq(ls, other)

RECURSIVE AddAll(_, _, _)
AddAll(s, items, ls) ==
    IF items = <<>> THEN ls
    ELSE AddAll(s, Tail(items), addEventListener(ls, Listener(s, Head(items))))

RECURSIVE RemoveAll(_, _, _)
RemoveAll(s, items, ls) ==
    IF items = <<>> THEN ls
    ELSE RemoveAll(s, Tail(items),
                   removeEventListener(ls, Listener(s, Head(items))))

_bindEvent(s, condition) ==
    IF ~Truthy(s.el) THEN s
    ELSE [s EXCEPT !.listeners = AddAll(s, _getEventItems(condition), @)]

_cleanEvent(s, condition) ==
    IF ~Truthy(s.el) THEN s
    ELSE [s EXCEPT !.listeners = RemoveAll(s, _getEventItems(condition), @)]

_cleanCurModeEvents(s, action) ==
    IF ~Truthy(s.el) THEN s
    ELSE _cleanEvent(s, [pointerType |-> _getPointerType(s.interactiveMode),
                         action |-> action])

_bindCurModeEvents(s, action) ==
    IF ~Truthy(s.el) THEN s
    ELSE _bindEvent(_cleanCurModeEvents(s, action),
                    [pointerType |-> _getPointerType(s.interactiveMode),
                     action |-> action])

(* ------------------------------ strokes ------------------------------- *)
\* the points a pointer event can report
Points == {[x |-> c, y |-> c] : c \in 1..MaxCoord}

\* the event objects: e.offsetX/offsetY of a MouseEvent, and touches[0]
\* relative to the target's bounding box of a TouchEvent
Events == {[type |-> t, point |-> p] : t \in {"MouseEvent", "TouchEvent"},
                                        p \in Points}

\* the events that end a stroke: no handler reads their coordinates
EndEvents == {e \in Events : e.point.x = 1}

_getPointOffset(e) ==
    IF e.type = "MouseEvent" THEN e.point
    ELSE IF e.type = "TouchEvent" THEN e.point
    ELSE undefined

\* an exception leaves the method at once

_handlePointerStart(s, e) ==
    LET s1 == [s EXCEPT !.isPainting = TRUE, !.lastPoint = _getPointOffset(e)]
        s2 == IF Truthy(s1.ctx)
              THEN _saveImageData(s1, "paint", s1.paintCount, getImageData(s1))
              ELSE s1
    IN IF (Truthy(s1.ctx) /\ getImageDataThrows(s1))
       THEN Throw(s1)
       ELSE IF s2.lastPoint = undefined
       THEN Throw(s2)
       ELSE LET s3 == _drawCircle(s2, s2.lastPoint)
                s4 == _bindCurModeEvents(s3, "move")
                s5 == _bindCurModeEvents(s4, "end")
            IN _bindCurModeEvents(s5, "leave")

_handlePointerMove(s, e) ==
    IF ~s.isPainting THEN s
    ELSE IF _getPointOffset(e) = undefined \/ s.lastPoint \in {undefined, null}
    THEN Throw(s)
    ELSE [_drawLine(s, s.lastPoint, _getPointOffset(e))
              EXCEPT !.lastPoint = _getPointOffset(e)]

_handlePointerEnd(s, e) ==
    LET s1 == [s EXCEPT !.isPainting = FALSE, !.paintCount = @ + 1]
        s2 == Call(s1, "onPaintEnd", s1.paintCount)
        s3 == _cleanCurModeEvents(s2, "move")
        s4 == _cleanCurModeEvents(s3, "end")
    IN _cleanCurModeEvents(s4, "leave")

_handlePointerLeave(s, e) ==
    IF s.isPainting THEN _handlePointerEnd(s, e) ELSE s

_handlePointerCancel(s, e) ==
    IF s.isPainting THEN _handlePointerEnd(s, e) ELSE s

\* the bound function of a listener runs the method on the board
Handle(s, l, e) ==
    LET r == CASE l.fn = "_handlePointerStart" -> _handlePointerStart(s, e)
               [] l.fn = "_handlePointerMove" -> _handlePointerMove(s, e)
               [] l.fn = "_handlePointerEnd" -> _handlePointerEnd(s, e)
               [] l.fn = "_handlePointerLeave" -> _handlePointerLeave(s, e)
               [] l.fn = "_handlePointerCancel" -> _handlePointerCancel(s, e)
    IN r

\* The element runs the listeners registered for the event when the dispatch
\* starts, in registration order, skipping one removed in the meantime; an
\* exception in one listener does not stop the next.
RECURSIVE RunListeners(_, _, _)
RunListeners(s, ls, e) ==
    IF ls = <<>> THEN s
    ELSE LET l == Head(ls)
             registered == \E i \in DOMAIN s.listeners : s.listeners[i] = l
             r == IF registered
                  THEN Handle([s EXCEPT !.thrown = FALSE], l, e)
                  ELSE s
         IN RunListeners([r EXCEPT !.thrown = s.thrown \/ r.thrown],
                         Tail(ls), e)

\* a native event `name` on the mounted element
dispatchEvent(s, name, e) ==
    LET named(l) == l.name = name
    IN RunListeners(s, SelectSeq(s.listeners, named), e)

(* ------------------------------ rotation ------------------------------ *)
\* v + n for an integer n
Plus(v, n) ==
    CASE v.type = "number" -> Num(v.num + n)
      [] v.type = "null" -> Num(n)
      [] OTHER -> NaN

\* Math.ceil(n / 90) and Math.floor(n / 90) for n >= 0
CeilDiv90(n) == (n + 89) \div 90
FloorDiv90(n) == n \div 90

Abs(n) == IF n < 0 THEN -n ELSE n

\* _getLawfulRotateAngle rounding up only above 45
_getLawfulRotateAngleAbove45(angle) ==
    IF ~IsNumberType(angle) \/ angle.type = "NaN"
    THEN undefined
    ELSE LET tempAngle == JsRem(angle.num, 360)
             newAngle == IF tempAngle < 0 THEN tempAngle + 360 ELSE tempAngle
             roundAngle == IF JsRem(newAngle, 90) > 45
                           THEN JsRem(CeilDiv90(newAngle) * 90, 360)
                           ELSE JsRem(FloorDiv90(newAngle) * 90, 360)
         IN Num(Abs(roundAngle))

_getLawfulRotateAngle(angle) ==
    IF ~IsNumberType(angle) \/ angle.type = "NaN"
    THEN undefined
    ELSE LET tempAngle == JsRem(angle.num, 360)
             newAngle == IF tempAngle < 0 THEN tempAngle + 360 ELSE tempAngle
             roundAngle == IF JsRem(newAngle, 90) >= 45
                           THEN JsRem(CeilDiv90(newAngle) * 90, 360)
                           ELSE JsRem(FloorDiv90(newAngle) * 90, 360)
         IN Num(Abs(roundAngle))

\* f(...this.originalSize) throws a TypeError when originalSize is undefined
rotate(s, direction) ==
    IF direction \notin {1, -1} THEN s
    ELSE LET s1 == [s EXCEPT !.bgImgRotate =
                        _getLawfulRotateAngle(Plus(@, direction * 90))]
             s2 == setSize(s1, s1.height, s1.width)
         IN IF s2.originalSize = undefined
            THEN Throw(s2)
            ELSE [_drawBg(s2, s2._bgImgObject, s2.originalSize.items[1],
                          s2.originalSize.items[2])
                      EXCEPT !.paintCount = 0, !.revokeStack = <<>>]

clear(s) ==
    IF ~Truthy(s.ctx) \/ ~Truthy(s.el) THEN s
    ELSE IF getImageDataThrows(s) THEN Throw(s)
    ELSE LET s1 == _saveImageData(s, "clear", s.paintCount, getImageData(s))
             s2 == [clearRect(s1) EXCEPT !.paintCount = 0]
         IN IF Truthy(s2._bgImgObject)
            THEN IF s2.originalSize = undefined
                 THEN Throw(s2)
                 ELSE _drawBg(s2, s2._bgImgObject, s2.originalSize.items[1],
                              s2.originalSize.items[2])
            ELSE s2

\* /^(http[s]?)|(data:image)/.test(url): the string begins with http or
\* holds data:image.  Strings are atoms here, so the test is tabulated on
\* the strings the model uses.
MatchesImageURL(url) ==
    url.type = "string" /\
    url.val \in {"https://host/A.png", "data:image/png;base64,B"}

\* the image a load of url gives when it succeeds
ImageOf(load) ==
    [type |-> "image", id |-> load.url.val, seq |-> load.seq,
     width |-> Num(3), height |-> Num(3)]

\* new Promise(...): the load is in flight until its promise settles; a
\* url that fails the test can only be rejected
_getImageFromURL(s, imgURL, from, originalWidth, originalHeight) ==
    [s EXCEPT !.requested = @ + 1,
              !.loads = Append(@, [seq |-> s.requested + 1, from |-> from,
                                   url |-> imgURL,
                                   malformed |-> ~MatchesImageURL(imgURL),
                                   originalWidth |-> originalWidth,
                                   originalHeight |-> originalHeight])]

\* the loads in flight without the i-th
Settled(s, i) ==
    [s EXCEPT !.loads = SubSeq(@, 1, i - 1) \o SubSeq(@, i + 1, Len(@))]

\* .catch(err => { this._bgImgObject = null })
catch(s) == [s EXCEPT !._bgImgObject = null, !.thrown = FALSE]

\* a then that carries a generation tag: the image of a load is dropped
\* when a later load has been requested since
thenIfLatest(s, i) ==
    LET load == s.loads[i]
        image == ImageOf(load)
        size == <<OrElse(load.originalWidth, image.width),
                  OrElse(load.originalHeight, image.height)>>
        s1 == [Settled(s, i) EXCEPT
                  !._bgImgObject = image,
                  !.originalSize = [type |-> "array", items |-> size]]
    IN IF load.seq < s.requested
       THEN Settled(s, i)
       ELSE _drawBg(s1, image, size[1], size[2])

\* .then(image => ...) of the i-th load in flight, followed by the catch
\* when the callback throws
then(s, i) ==
    LET load == s.loads[i]
        image == ImageOf(load)
        size == IF load.from = "_init"
                THEN <<image.width, image.height>>
                ELSE <<OrElse(load.originalWidth, image.width),
                       OrElse(load.originalHeight, image.height)>>
        s1 == [Settled(s, i) EXCEPT
                  !._bgImgObject = image,
                  !.originalSize = [type |-> "array", items |-> size]]
        s2 == _drawBg(s1, image, size[1], size[2])
    IN IF s2.thrown THEN catch(s2) ELSE s2

\* the i-th load in flight fails: its promise is rejected
rejected(s, i) == catch(Settled(s, i))

\* setBgImg with a string that passes the test starts a load; with
\* anything else (an image object, another string) it draws at once
setBgImg(s, urlOrObject, originalWidth, originalHeight) ==
    IF urlOrObject.type = "string" /\ MatchesImageURL(urlOrObject)
    THEN _getImageFromURL(s, urlOrObject, "setBgImg", originalWidth,
                          originalHeight)
    ELSE LET s1 == IF urlOrObject # s._bgImgObject
                   THEN [s EXCEPT !._bgImgObject = urlOrObject]
                   ELSE s
             s2 == [s1 EXCEPT !.originalSize =
                       [type |-> "array",
                        items |-> <<OrElse(originalWidth, s1.width),
                                    OrElse(originalHeight, s1.height)>>]]
         IN _drawBg(s2, urlOrObject, s2.originalSize.items[1],
                    s2.originalSize.items[2])

(* ------------------------------ export -------------------------------- *)
IMG_TYPE_ENUM == {Str("jpg"), Str("jpeg"), Str("png"), Str("webp")}

\* a parameter with a default value: undefined takes the default
Default(v, d) == IF v = undefined THEN d ELSE v

\* what a call gives back: the board after it and the value it returns
Returns(s, v) == [board |-> s, value |-> v]

\* typeof compressRate !== 'number' || isNaN(compressRate)
NotARate(compressRate) ==
    ~IsNumberType(compressRate) \/ compressRate.type = "NaN"

\* if (compressRate < 0.3) compressRate = 0.3; if (> 1) compressRate = 1
ClampRate(compressRate) ==
    IF compressRate.num * 10 < 3 * compressRate.den THEN Frac(3, 10)
    ELSE IF compressRate.num > compressRate.den THEN Num(1)
    ELSE compressRate

\* el.toDataURL / el.toBlob: the encoding of the element's raster
Encoded(s, kind, type, compressRate) ==
    [type |-> kind, resourceType |-> type.val,
     compressRate |-> ClampRate(compressRate),
     pixels |-> s.canvases[s.el.id]]

getDataUrl(s, type0, compressRate0) ==
    LET type == Default(type0, Str("png"))
        compressRate == Default(compressRate0, Num(1))
    IN IF \/ ~Truthy(s.el)
          \/ type \notin IMG_TYPE_ENUM
          \/ NotARate(compressRate)
       THEN Returns(s, undefined)
       ELSE Returns(s, Encoded(s, "dataURL", type, compressRate))

\* the returned promise of a blob
getBlob(s, type0, compressRate0) ==
    LET type == Default(type0, Str("png"))
        compressRate == Default(compressRate0, Num(1))
    IN IF \/ ~Truthy(s.el)
          \/ type \notin IMG_TYPE_ENUM
          \/ NotARate(compressRate)
       THEN Returns(s, undefined)
       ELSE Returns(s, [type |-> "Promise",
                        of |-> Encoded(s, "Blob", type, compressRate)])

\* this.getBlob(type, compressRate).then(...): reading then of undefined
\* throws
getFile(s, name, type, compressRate) ==
    LET blob == getBlob(s, type, compressRate)
    IN IF blob.value = undefined
       THEN Returns(Throw(blob.board), undefined)
       ELSE Returns(blob.board,
                    [type |-> "Promise",
                     of |-> [blob.value.of EXCEPT !.type = "File"]])

\* the link is clicked when there is a data URL; nothing is returned
download(s, type0, compressRate0, name) ==
    LET type == Default(type0, Str("png"))
        compressRate == Default(compressRate0, Num(1))
    IN IF type \notin IMG_TYPE_ENUM \/ NotARate(compressRate)
       THEN Returns(s, undefined)
       ELSE LET url == getDataUrl(s, type, ClampRate(compressRate))
            IN IF Truthy(url.value)
               THEN Returns(Call(url.board, "link.click", url.value),
                            undefined)
               ELSE Returns(url.board, undefined)

(* ------------------------------ life cycle ---------------------------- *)
\* the container's measured box
container == [width |-> Num(2), height |-> Num(1)]

_defaultOptions ==
    [size |-> <<undefined, undefined>>, manualMount |-> FALSE,
     maxRevokeSteps |-> Num(10), interactiveMode |-> "mouse",
     bgImgURL |-> Str(""), bgImgRotate |-> Num(0)]

\* the object before its constructor has run
Pristine ==
    [options |-> undefined, el |-> undefined, ctx |-> undefined,
     canvases |-> <<>>, listeners |-> <<>>, width |-> undefined,
     height |-> undefined, manualMount |-> FALSE, revokeStack |-> <<>>,
     MAX_REVOKE_STEPS |-> undefined, lastPoint |-> undefined,
     isPainting |-> FALSE, interactiveMode |-> "", binded |-> 0,
     bgImgRotate |-> undefined, _bgImgObject |-> undefined,
     originalSize |-> undefined, paintCount |-> 0, loads |-> <<>>,
     requested |-> 0, calls |-> <<>>, thrown |-> FALSE]

\* options is the merged object {...this._defaultOptions, ...options}
_init(s, opts) ==
    LET s1 == setSize([s EXCEPT !.options = opts],
                      IF IsNullish(opts.size[1]) THEN container.width
                      ELSE opts.size[1],
                      IF IsNullish(opts.size[2]) THEN container.height
                      ELSE opts.size[2])
        s2 == IF Truthy(opts.bgImgURL)
              THEN _getImageFromURL(s1, opts.bgImgURL, "_init", undefined,
                                    undefined)
              ELSE [s1 EXCEPT !._bgImgObject = null]
    IN [s2 EXCEPT
           !.manualMount = opts.manualMount,
           !.revokeStack = <<>>,
           !.MAX_REVOKE_STEPS = _getLawfulMaxRevokeSteps(opts.maxRevokeSteps),
           !.lastPoint = null,
           !.isPainting = FALSE,
           !.interactiveMode = IF opts.interactiveMode \in INTERACTIVE_MODE_ENUM
                               THEN opts.interactiveMode ELSE "mouse",
           !.binded = @ + 1,
           !.bgImgRotate = _getLawfulRotateAngle(opts.bgImgRotate),
           !.paintCount = 0]

mount(s) ==
    LET s1 == IF ~Truthy(s.el)
              THEN [s EXCEPT !.el = _makeCanvas(s),
                             !.canvases = Append(@, Blank),
                             !.listeners = <<>>]
              ELSE s
        s2 == IF ~Truthy(s1.ctx) THEN [s1 EXCEPT !.ctx = _getCtx(s1)] ELSE s1
        s3 == _setDOMSize(s2, s2.width, s2.height)
    IN _bindCurModeEvents(s3, "start")

constructor(opts) ==
    LET s == _init(Pristine, opts)
    IN IF ~s.manualMount THEN mount(s) ELSE s

reInit(s, opts) ==
    mount(_init(s, IF opts # undefined THEN opts ELSE s.options))

\* removeChild(null) throws a TypeError
destory(s) ==
    IF ~Truthy(s.el) THEN Throw(s)
    ELSE [s EXCEPT !.el = null, !._bgImgObject = null, !.listeners = <<>>]

(* ------------------------------ inputs -------------------------------- *)
OptionsInputs ==
    {[_defaultOptions EXCEPT !.maxRevokeSteps = Num(2)],
     [_defaultOptions EXCEPT !.maxRevokeSteps = Num(1),
                             !.size = <<Num(2), Num(0)>>,
                             !.interactiveMode = "touch",
                             !.bgImgRotate = Num(-90)],
     [_defaultOptions EXCEPT !.maxRevokeSteps = Frac(3, 2),
                             !.interactiveMode = "both",
                             !.bgImgRotate = Str("abc")]}

\* decoded images handed to setBgImg
Images == {[type |-> "image", id |-> "A"]}

Directions == {1, -1, 0}

(* ------------------------------ actions ------------------------------- *)
IsBoard(s) ==
    /\ options = s.options
    /\ el = s.el
    /\ ctx = s.ctx
    /\ canvases = s.canvases
    /\ listeners = s.listeners
    /\ width = s.width
    /\ height = s.height
    /\ manualMount = s.manualMount
    /\ revokeStack = s.revokeStack
    /\ MAX_REVOKE_STEPS = s.MAX_REVOKE_STEPS
    /\ lastPoint = s.lastPoint
    /\ isPainting = s.isPainting
    /\ interactiveMode = s.interactiveMode
    /\ binded = s.binded
    /\ bgImgRotate = s.bgImgRotate
    /\ _bgImgObject = s._bgImgObject
    /\ originalSize = s.originalSize
    /\ paintCount = s.paintCount
    /\ loads = s.loads
    /\ requested = s.requested

Init == \E opts \in OptionsInputs : IsBoard(constructor(opts))

\* a native event on the mounted element
NativeEvent(name, e) ==
    /\ Truthy(el)
    /\ paintCount < MaxPaintCount
    /\ Becomes(dispatchEvent(This, name, e))

PointerDown == \E e \in Events :
    NativeEvent(IF e.type = "MouseEvent" THEN "mousedown" ELSE "touchstart", e)

PointerMove == \E e \in Events :
    NativeEvent(IF e.type = "MouseEvent" THEN "mousemove" ELSE "touchmove", e)

PointerUp == \E e \in EndEvents :
    NativeEvent(IF e.type = "MouseEvent" THEN "mouseup" ELSE "touchend", e)

PointerLeave == \E e \in EndEvents :
    e.type = "MouseEvent" /\ NativeEvent("mouseleave", e)

PointerCancel == \E e \in EndEvents :
    e.type = "TouchEvent" /\ NativeEvent("touchcancel", e)

Clear == Becomes(clear(This))

Revoke == Becomes(revoke(This))

Rotate == \E d \in Directions : Becomes(rotate(This, d))

SetBgImg == \E img \in Images, size \in {undefined} :
    Becomes(setBgImg(This, img, size, size))

ReInit == \E opts \in OptionsInputs \cup {undefined} :
    /\ binded < MaxInits
    /\ Becomes(reInit(This, opts))

Next ==
    \/ PointerDown
    \/ PointerMove
    \/ PointerUp
    \/ PointerLeave
    \/ PointerCancel
    \/ Clear
    \/ Revoke
    \/ Rotate
    \/ SetBgImg
    \/ ReInit

Spec == Init /\ [][Next]_vars

\* strokes, clear, revoke, rotate and backgrounds on a board that is not
\* initialized again
NextHistory ==
    \/ PointerDown
    \/ PointerMove
    \/ PointerUp
    \/ PointerLeave
    \/ PointerCancel
    \/ Clear
    \/ Revoke
    \/ Rotate
    \/ SetBgImg

SpecHistory == Init /\ [][NextHistory]_vars

\* boards constructed with every angle of -MaxAngle..MaxAngle as bgImgRotate,
\* then rotated and initialized again with the same options
AngleInputs == (0 - MaxAngle)..MaxAngle

InitAngle == \E a \in AngleInputs :
    IsBoard(constructor([_defaultOptions EXCEPT !.bgImgRotate = Num(a)]))

ReInitSame ==
    /\ binded < MaxInits
    /\ Becomes(reInit(This, undefined))

NextAngle ==
    \/ Rotate
    \/ ReInitSame

SpecAngle == InitAngle /\ [][NextAngle]_vars

(* ------------------------------ properties ---------------------------- *)
\* the pixels of the surface the board draws on and reads back
Pixels(s) == IF Truthy(s.ctx) THEN s.canvases[s.ctx.canvas] ELSE Blank

Top(stack) == stack[Len(stack)]
Front(stack) == SubSeq(stack, 1, Len(stack) - 1)

\* the revoke stack is at capacity
AtCapacity == Len(revokeStack) * MAX_REVOKE_STEPS.den >= MAX_REVOKE_STEPS.num

\* the native event names of a pointer family
StartName(e) == IF e.type = "MouseEvent" THEN "mousedown" ELSE "touchstart"
MoveName(e) == IF e.type = "MouseEvent" THEN "mousemove" ELSE "touchmove"
EndName(e) == IF e.type = "MouseEvent" THEN "mouseup" ELSE "touchend"

\* one complete stroke: pointer-down at e, the moves, pointer-up
RECURSIVE Moves(_, _)
Moves(s, es) ==
    IF es = <<>> THEN s
    ELSE Moves(dispatchEvent(s, MoveName(Head(es)), Head(es)), Tail(es))

Stroke(s, e, es) ==
    dispatchEvent(Moves(dispatchEvent(s, StartName(e), e), es), EndName(e), e)

RECURSIVE Strokes(_, _, _)
Strokes(s, k, e) == IF k = 0 THEN s ELSE Strokes(Stroke(s, e, <<>>), k - 1, e)

RECURSIVE Revokes(_, _)
Revokes(s, k) == IF k = 0 THEN s ELSE Revokes(revoke(s), k - 1)

\* C1: in every reachable state the revoke stack holds at most
\* MAX_REVOKE_STEPS entries (and at least none).
C1_StackWithinMaxRevokeSteps ==
    /\ 0 <= Len(revokeStack)
    /\ Len(revokeStack) * MAX_REVOKE_STEPS.den <= MAX_REVOKE_STEPS.num

\* C2: a capture (a stroke start or a clear) at capacity drops exactly the
\* oldest entry and appends the new one after the others, in their order;
\* hence with MAX_REVOKE_STEPS = N, after N + 1 strokes the first N revokes
\* bring back the N latest pre-stroke snapshots, latest first, and the next
\* revoke changes nothing.
C2_EvictsOldestKeepsOrder ==
    /\ (Truthy(el) /\ AtCapacity) =>
          /\ \A e \in Events :
                dispatchEvent(This, StartName(e), e).revokeStack =
                    Append(Tail(revokeStack),
                           [type |-> "paint", paintCount |-> paintCount,
                            imageData |-> getImageData(This)])
          /\ clear(This).revokeStack =
                Append(Tail(revokeStack),
                       [type |-> "clear", paintCount |-> paintCount,
                        imageData |-> getImageData(This)])
    /\ (Truthy(el) /\ ~isPainting /\ MAX_REVOKE_STEPS.den = 1) =>
          \A e \in Events :
             LET N == MAX_REVOKE_STEPS.num
                 done == Strokes(This, N + 1, e)
                 last == [Revokes(done, N) EXCEPT !.calls = <<>>]
             IN /\ \A j \in 1..N :
                      Pixels(Revokes(done, j)) =
                          Pixels(Strokes(This, N + 1 - j, e))
                /\ revoke(last) = last

\* C3: revoke on a non-empty stack removes the latest entry, writes its
\* snapshot to the surface and sets paintCount to its marker; on an empty
\* stack it changes nothing, notifies nobody and does not throw.
C3_RevokePopsAndRestores ==
    LET r == revoke(This)
    IN IF revokeStack # <<>>
       THEN /\ r.revokeStack = Front(revokeStack)
            /\ Pixels(r) = Top(revokeStack).imageData.pixels
            /\ r.paintCount = Top(revokeStack).paintCount
            /\ ~r.thrown
       ELSE r = This

\* a state in which revoke has an entry to restore that differs from the
\* surface and the paint count
C3_Witness ==
    /\ Len(revokeStack) = 2
    /\ revokeStack[1] # revokeStack[2]
    /\ Top(revokeStack).imageData.pixels # Pixels(This)
    /\ Top(revokeStack).paintCount # paintCount

\* C4: from an idle state, one complete stroke followed by revoke leaves
\* the surface pixels and the paint count as they were before the stroke.
C4_StrokeThenRevokeRestores ==
    (Truthy(el) /\ ~isPainting) =>
        \A e \in Events, es \in {<<>>} \cup {<<m>> : m \in Events} :
            (\A i \in DOMAIN es : es[i].type = e.type) =>
                LET r == revoke(Stroke(This, e, es))
                IN /\ Pixels(r) = Pixels(This)
                   /\ r.paintCount = paintCount

\* C5: on a mounted board clear pushes one entry tagged clear that holds
\* the paint count and the pixels, sets paintCount to 0, and a revoke right
\* after it brings the pixels and the paint count back.
C5_ClearThenRevokeRestores ==
    Truthy(el) =>
        LET c == clear(This)
            r == revoke(c)
        IN /\ c.revokeStack # <<>>
           /\ Top(c.revokeStack) =
                 [type |-> "clear", paintCount |-> paintCount,
                  imageData |-> [type |-> "ImageData",
                                 pixels |-> Pixels(This)]]
           /\ Front(c.revokeStack) =
                 IF AtCapacity THEN Tail(revokeStack) ELSE revokeStack
           /\ c.paintCount = 0
           /\ ~c.thrown /\ ~r.thrown
           /\ Pixels(r) = Pixels(This)
           /\ r.paintCount = paintCount

\* C6: rotate(1) and rotate(-1) complete with paintCount = 0 and an empty
\* revoke stack, whether or not a background image has been set; rotate
\* with any other direction changes nothing.
C6_RotateResetsHistory ==
    /\ \A d \in {1, -1} :
          LET r == rotate(This, d)
          IN ~r.thrown /\ r.paintCount = 0 /\ r.revokeStack = <<>>
    /\ \A d \in Directions \ {1, -1} : rotate(This, d) = This

\* C7: four rotations in one direction bring rotation, width and height
\* back to what they were.
C7_FourRotationsAreIdentity ==
    \A d \in {1, -1} :
        LET r == rotate(rotate(rotate(rotate(This, d), d), d), d)
        IN /\ r.bgImgRotate = bgImgRotate
           /\ r.width = width
           /\ r.height = height

\* C8: the stored background rotation is always one of 0, 90, 180, 270.
C8_RotationIsQuarterTurn ==
    bgImgRotate \in {Num(0), Num(90), Num(180), Num(270)}

\* a reduced into [0, 360) and rounded to the nearest multiple of 90, a
\* remainder of 45 or more rounding up and 360 wrapping to 0
NearestQuarterTurn(a) ==
    LET m == a % 360
        q == m \div 90
    IN ((IF m % 90 >= 45 THEN q + 1 ELSE q) * 90) % 360

\* C9: for every integer angle, _getLawfulRotateAngle gives the nearest
\* quarter turn of the angle reduced into [0, 360), is idempotent, and maps
\* -90 to 270, 450 to 90, 10 to 0 and 55 to 90.
C9_LawfulRotateAngle ==
    LET a == options.bgImgRotate.num
        r == _getLawfulRotateAngle(Num(a))
    IN /\ r \in {Num(0), Num(90), Num(180), Num(270)}
       /\ r = Num(NearestQuarterTurn(a))
       /\ _getLawfulRotateAngle(r) = r
       /\ a = -90 => r = Num(270)
       /\ a = 450 => r = Num(90)
       /\ a = 10 => r = Num(0)
       /\ a = 55 => r = Num(90)

\* a board constructed with bgImgRotate 315, which rounds up and wraps to 0
C9_Witness ==
    /\ options.bgImgRotate = Num(315)
    /\ bgImgRotate = Num(0)

\* C10: the surface has at most one listener for each native event name.
C10_OneListenerPerEventName ==
    \A name \in EventNames :
        Cardinality({i \in DOMAIN listeners : listeners[i].name = name}) <= 1

\* the native events of the start phase, and of the move, end and leave
\* phases
StartNames == {"mousedown", "touchstart"}
PhaseNames == {"mousemove", "mouseup", "mouseleave", "touchmove", "touchend"}

\* the native event names that have a listener on the surface of s
Registered(s) == {s.listeners[i].name : i \in DOMAIN s.listeners}

\* the calls of the stroke-end callback that s has collected
PaintEndCalls(s) ==
    LET isPaintEnd(c) == c.fn = "onPaintEnd" IN SelectSeq(s.calls, isPaintEnd)

\* one stroke that the pointer ends by leaving the surface
StrokeLeft(s, e, es) ==
    dispatchEvent(Moves(dispatchEvent(s, StartName(e), e), es),
                  "mouseleave", e)

\* events that are neither a MouseEvent nor a TouchEvent
UnknownEvents == {[type |-> "Event", point |-> p] : p \in Points}

\* C11: on a mounted board the start events that have a listener are those
\* of the interactive mode: mousedown alone for mouse, touchstart alone for
\* touch, both for both, in every state (strokes do not change them).
C11_StartListenersFollowMode ==
    Truthy(el) =>
        Registered(This) \cap StartNames =
            CASE interactiveMode = "touch" -> {"touchstart"}
              [] interactiveMode = "both" -> {"mousedown", "touchstart"}
              [] OTHER -> {"mousedown"}

\* C12: from an idle state with paintCount n, one complete stroke (down,
\* no or one move, then up or leave) pushes exactly one entry, tagged paint
\* with marker n and the pixels of before the dot, ends idle with
\* paintCount n + 1, and calls the stroke-end callback once, with n + 1.
C12_StrokeLifeCycle ==
    (Truthy(el) /\ ~isPainting) =>
        \A e \in Events, es \in {<<>>} \cup {<<m>> : m \in Events} :
            (\A i \in DOMAIN es : es[i].type = e.type) =>
                \A r \in {Stroke(This, e, es)} \cup
                         (IF e.type = "MouseEvent"
                          THEN {StrokeLeft(This, e, es)} ELSE {}) :
                    /\ ~r.thrown
                    /\ r.revokeStack =
                          Append(IF AtCapacity THEN Tail(revokeStack)
                                 ELSE revokeStack,
                                 [type |-> "paint", paintCount |-> paintCount,
                                  imageData |-> [type |-> "ImageData",
                                                 pixels |-> Pixels(This)]])
                    /\ ~r.isPainting
                    /\ r.paintCount = paintCount + 1
                    /\ PaintEndCalls(r) =
                          <<[fn |-> "onPaintEnd", arg |-> paintCount + 1]>>

\* C13: while painting, lastPoint is a point; and a pointer-start with an
\* event that is neither a mouse nor a touch event does not throw and
\* leaves an idle board idle.
C13_PaintingHasLastPoint ==
    /\ isPainting => lastPoint \in Points
    /\ (Truthy(el) /\ ~isPainting) =>
          \A name \in StartNames, e \in UnknownEvents :
              LET r == dispatchEvent(This, name, e)
              IN ~r.thrown /\ ~r.isPainting

\* C14: the resolved maxRevokeSteps is 10 for a configured value that is
\* non-positive, not a number or NaN, 50 for one above 50, the value itself
\* for an integer in 1..50, and so always an integer in 1..50.
C14_LawfulMaxRevokeSteps ==
    LET v == options.maxRevokeSteps
        r == _getLawfulMaxRevokeSteps(v)
    IN /\ MAX_REVOKE_STEPS = r
       /\ (v.type # "number" \/ v.num <= 0) => r = Num(10)
       /\ (v.type = "number" /\ v.num > 50 * v.den) => r = Num(50)
       /\ (v.type = "number" /\ v.num % v.den = 0
             /\ v.num \div v.den \in 1..50) => r = v
       /\ r.type = "number" /\ r.num % r.den = 0
       /\ r.num \div r.den \in 1..50

\* C17: move, end and leave listeners are on the surface exactly while the
\* board is painting, so no move, end or leave event does anything to an
\* idle board.
C17_PhaseListenersIffPainting ==
    Truthy(el) =>
        /\ isPainting =>
              \E family \in {{"mousemove", "mouseup"},
                             {"touchmove", "touchend"}} :
                  family \subseteq Registered(This)
        /\ ~isPainting =>
              /\ Registered(This) \cap PhaseNames = {}
              /\ \A e \in Events, name \in PhaseNames :
                    dispatchEvent(This, name, e) = This

\* C18: in mode touch or both, a touchcancel on the surface of a painting
\* board ends the stroke: the board is idle, paintCount is one more, the
\* stroke-end callback got the new count, and no move, end or leave
\* listener is left.
C18_TouchCancelEndsStroke ==
    (Truthy(el) /\ isPainting /\ interactiveMode \in {"touch", "both"}) =>
        \A e \in {ev \in Events : ev.type = "TouchEvent"} :
            LET r == dispatchEvent(This, "touchcancel", e)
            IN /\ ~r.isPainting
               /\ r.paintCount = paintCount + 1
               /\ PaintEndCalls(r) =
                     <<[fn |-> "onPaintEnd", arg |-> paintCount + 1]>>
               /\ Registered(r) \cap PhaseNames = {}

(* ------------------------------ exports ------------------------------- *)
TypeInputs == {undefined, Str("png"), Str("jpeg"), Str("gif")}
RateInputs == {undefined, Num(1), Frac(1, 10), Str("0.5"), NaN}

GetDataUrl ==
    \E type \in TypeInputs, rate \in RateInputs :
        Becomes(getDataUrl(This, type, rate).board)

GetBlob ==
    \E type \in TypeInputs, rate \in RateInputs :
        Becomes(getBlob(This, type, rate).board)

GetFile ==
    \E type \in TypeInputs, rate \in RateInputs :
        Becomes(getFile(This, undefined, type, rate).board)

Download ==
    \E type \in TypeInputs, rate \in RateInputs :
        Becomes(download(This, type, rate, undefined).board)

\* drawing, clearing and exporting
NextExport ==
    \/ PointerDown
    \/ PointerMove
    \/ PointerUp
    \/ Clear
    \/ SetBgImg
    \/ GetDataUrl
    \/ GetBlob
    \/ GetFile
    \/ Download

SpecExport == Init /\ [][NextExport]_vars

\* the format is outside the enumeration or the rate is not a number
BadExport(type, rate) ==
    \/ Default(type, Str("png")) \notin IMG_TYPE_ENUM
    \/ Default(rate, Num(1)).type # "number"

\* C15: each of the four export operations, called with a format outside
\* jpg, jpeg, png, webp or with a compression rate that is not a number,
\* returns nothing, throws nothing and leaves the board as it was.
C15_BadExportReturnsNothing ==
    \A type \in TypeInputs, rate \in RateInputs :
        BadExport(type, rate) =>
            \A r \in {getDataUrl(This, type, rate),
                      getBlob(This, type, rate),
                      getFile(This, undefined, type, rate),
                      download(This, type, rate, undefined)} :
                /\ r.value = undefined
                /\ ~r.board.thrown
                /\ r.board = This

(* ------------------------------ image loads --------------------------- *)
\* the number of image loads requested in one behaviour
MaxLoads == 2

LoadOptionsInputs ==
    {[_defaultOptions EXCEPT !.maxRevokeSteps = Num(1)],
     [_defaultOptions EXCEPT !.maxRevokeSteps = Num(1),
                             !.bgImgURL = Str("https://host/A.png")],
     [_defaultOptions EXCEPT !.maxRevokeSteps = Num(1),
                             !.bgImgURL = Str("abc")]}

URLInputs ==
    {Str("https://host/A.png"), Str("data:image/png;base64,B"), Str("abc")}

\* the strings among them that are no image url
MalformedURLs == {url \in URLInputs : ~MatchesImageURL(url)}

SizeInputs == {undefined, Num(1), Num(2)}

InitLoad == \E opts \in LoadOptionsInputs : IsBoard(constructor(opts))

SetBgImgURL ==
    \E url \in URLInputs :
        /\ requested < MaxLoads
        /\ Becomes(setBgImg(This, url, undefined, undefined))

\* the image of a load in flight arrives
LoadResolves ==
    \E i \in DOMAIN loads :
        /\ ~loads[i].malformed
        /\ Becomes(then(This, i))

\* a load in flight fails
LoadRejects == \E i \in DOMAIN loads : Becomes(rejected(This, i))

SetSize == \E w \in SizeInputs, h \in SizeInputs : Becomes(setSize(This, w, h))

NextLoad ==
    \/ SetBgImgURL
    \/ LoadResolves
    \/ LoadRejects
    \/ Rotate
    \/ SetSize
    \/ Clear

SpecLoad == InitLoad /\ [][NextLoad]_vars

\* the background that a board draws for image with the rotation, width
\* and height it holds
BgOf(s, image, w, h) ==
    LET upright == s.bgImgRotate \in {Num(0), Num(180)}
    IN <<[img |-> image, sWidth |-> w, sHeight |-> h,
          dWidth |-> IF upright THEN s.width ELSE s.height,
          dHeight |-> IF upright THEN s.height ELSE s.width,
          rotate |-> s.bgImgRotate]>>

\* after a failed setBackground: no handle is held, and clear and rotate
\* draw no background and do not throw
NoBackground(s) ==
    /\ ~s.thrown
    /\ IsNullish(s._bgImgObject)
    /\ \A r \in {clear(s), rotate(s, 1), rotate(s, -1)} :
          ~r.thrown /\ Pixels(r).bg = <<>>

\* C16: a setBackground whose source cannot be loaded (a string that is no
\* http(s) url or image data uri, or a load that fails) throws nothing,
\* and after the failure no image handle is held: clear and rotate then
\* draw no background and do not throw.
C16_FailedBackgroundIsNone ==
    Truthy(el) =>
        /\ \A url \in MalformedURLs :
              NoBackground(setBgImg(This, url, undefined, undefined))
        /\ \A i \in DOMAIN loads : NoBackground(rejected(This, i))

\* C19: while a background load is in flight, rotate, resize and clear do
\* not fail, and the redraw made when the load resolves uses the rotation,
\* width and height the board holds at that time.
C19_CallsDuringLoad ==
    (Truthy(el) /\ loads # <<>>) =>
        /\ \A d \in {1, -1} : ~rotate(This, d).thrown
        /\ \A w \in SizeInputs, h \in SizeInputs : ~setSize(This, w, h).thrown
        /\ ~clear(This).thrown
        /\ \A i \in DOMAIN loads :
              ~loads[i].malformed =>
                  LET r == then(This, i)
                  IN /\ ~r.thrown
                     /\ Pixels(r).bg =
                           BgOf(This, ImageOf(loads[i]),
                                r.originalSize.items[1],
                                r.originalSize.items[2])

\* C20: every settlement of a load in flight overwrites the held image
\* handle, whatever was requested or settled before: a resolution leaves
\* the image of that load, a rejection leaves none; so when a later load
\* has resolved first, the earlier one still replaces its image.
C20_LastSettlementWins ==
    \A i \in DOMAIN loads :
        /\ ~loads[i].malformed =>
              then(This, i)._bgImgObject = ImageOf(loads[i])
        /\ rejected(This, i)._bgImgObject = null
        /\ then(This, i).loads = Settled(This, i).loads
        /\ rejected(This, i).loads = Settled(This, i).loads

\* load A is still in flight while the held image is that of a load B
\* requested after A
C20_Witness ==
    \E i \in DOMAIN loads :
        /\ Truthy(_bgImgObject)
        /\ _bgImgObject.type = "image"
        /\ _bgImgObject.seq > loads[i].seq
        /\ _bgImgObject.id # loads[i].url.val

(* ------------------------------ life cycle of the element ------------- *)
\* the number of canvas elements created in one behaviour
MaxElements == 2

LifeOptionsInputs ==
    {[_defaultOptions EXCEPT !.maxRevokeSteps = Num(1)],
     [_defaultOptions EXCEPT !.maxRevokeSteps = Num(1),
                             !.manualMount = TRUE]}

InitLife == \E opts \in LifeOptionsInputs : IsBoard(constructor(opts))

\* mount creates an element only when the board has none
Mount ==
    /\ Truthy(el) \/ Len(canvases) < MaxElements
    /\ Becomes(mount(This))

Destory == Becomes(destory(This))

NextLife ==
    \/ Mount
    \/ Destory
    \/ PointerDown
    \/ PointerMove
    \/ PointerUp
    \/ Clear
    \/ Revoke

SpecLife == InitLife /\ [][NextLife]_vars

\* C21: whenever the board has a surface element, the drawing context it
\* uses for strokes, snapshots, clear and revoke is the context of that
\* element, also after destory followed by mount.
C21_ContextOfCurrentElement ==
    Truthy(el) => (Truthy(ctx) /\ ctx.canvas = el.id)

====
